---- MODULE Spec2Model ----
(***************************************************************************)
(* A model of mender-shell's configuration pipeline (config.LoadConfig,    *)
(* MenderShellConfig.Validate) and of the daemon supervisor                *)
(* (cli.runDaemon).                                                        *)
(*                                                                         *)
(* Strings are sequences of characters; the alphabet of a URL is Chars.    *)
(* A Go slice is a record [nil, elems]: a nil slice and an empty non-nil   *)
(* slice both have zero elements, and the code tells them apart.           *)
(***************************************************************************)
EXTENDS Integers, Sequences, FiniteSets, TLC

VARIABLES
    cfg,            \* the MenderShellConfig that Validate works on
    valErr,         \* what the last Validate call returned
    prevErr,        \* what the Validate call before the last returned
    calls,          \* number of Validate calls made on cfg
    pre,            \* cfg as it was when the last Validate call began
    fs,             \* the file system: what is found at each configuration path
    loaded,         \* what LoadConfig returned, with its filesLoadedCount
    pcMain,         \* where the caller of runDaemon is
    pcSig,          \* where the signal-handling goroutine is
    subscribed,     \* signal.Notify(c, SIGTERM) is in force
    sigChan,        \* number of signals buffered in the channel c
    stopCalls,      \* number of calls of d.StopDaemon()
    stopRequested,  \* the daemon has been asked to stop
    runResult,      \* what d.Run() returned
    delivered,      \* number of SIGTERMs sent to the process
    queued,         \* number of SIGTERMs the channel c accepted
    alive           \* the process has not been terminated by a signal

validateVars == <<cfg, valErr, prevErr, calls, pre>>

loadVars == <<fs, loaded>>

daemonVars == <<pcMain, pcSig, subscribed, sigChan, stopCalls, stopRequested,
                runResult, delivered, queued, alive>>

vars == <<cfg, valErr, prevErr, calls, pre, fs, loaded,
          pcMain, pcSig, subscribed, sigChan, stopCalls, stopRequested,
          runResult, delivered, queued, alive>>

(***************************************************************************)
(* Bounds                                                                  *)
(***************************************************************************)
MaxLen == 2         \* longest URL drawn as an input of Validate
MaxServers == 2     \* longest Servers list drawn as an input of Validate
MaxCalls == 2       \* Validate calls made on one configuration
MaxFileServers == 2 \* longest "Servers" array written in a configuration file
MaxSignals == 4     \* SIGTERMs sent to the process during one run

Chars == {"a", "/"}

\* every string over Chars of length at most n
Strings(n) == UNION {[1..k -> Chars] : k \in 0..n}

EmptyString == <<>>

(***************************************************************************)
(* strings.HasSuffix(s, "/") and strings.TrimSuffix(s, "/")                *)
(***************************************************************************)
HasSuffixSlash(s) == Len(s) > 0 /\ s[Len(s)] = "/"

TrimSuffixSlash(s) == IF HasSuffixSlash(s) THEN SubSeq(s, 1, Len(s) - 1) ELSE s

(***************************************************************************)
(* https.MenderServer and the Servers slice                                *)
(***************************************************************************)
MenderServer(url) == [ServerURL |-> url]

NilServers == [nil |-> TRUE, elems |-> <<>>]

MakeServers(elems) == [nil |-> FALSE, elems |-> elems]

\* https.Client: the two fields maybeHTTPSClient reads
HTTPSClient(cert, key) == [Certificate |-> cert, Key |-> key]

\* MenderShellConfigFromFile: ServerURL stands for the scalar fields (each is
\* decoded the same way), Servers is the slice, HTTPSClient the nested struct
MenderShellConfig(url, servers) ==
    [ServerURL |-> url, Servers |-> servers,
     HTTPSClient |-> HTTPSClient(EmptyString, EmptyString)]

\* NewMenderShellConfig: the zero value of every field
NewMenderShellConfig == MenderShellConfig(EmptyString, NilServers)

(***************************************************************************)
(* Validate, lines 110-120: the loop that trims one "/" suffix of each URL *)
(***************************************************************************)
\* Variant: strings.TrimRight(s, "/") in place of TrimSuffix
NormalizeAllSlashes(s) ==
    LET RECURSIVE strip(_)
        strip(t) == IF HasSuffixSlash(t) THEN strip(SubSeq(t, 1, Len(t) - 1)) ELSE t
    IN  strip(s)

\* Variant of TrimLoop: every trailing slash removed
TrimLoopAll(servers) ==
    [servers EXCEPT !.elems =
        [i \in 1..Len(servers.elems) |->
            [servers.elems[i] EXCEPT !.ServerURL = NormalizeAllSlashes(@)]]]

\* lines 110-116: each entry loses one "/" suffix, if it has one
TrimLoop(servers) ==
    [servers EXCEPT !.elems =
        [i \in 1..Len(servers.elems) |->
            [servers.elems[i] EXCEPT !.ServerURL = TrimSuffixSlash(@)]]]

(***************************************************************************)
(* MenderShellConfig.Validate: the configuration it leaves and its result. *)
(* c.HTTPSClient.Validate() (line 122) belongs to package https and does   *)
(* not touch ServerURL or Servers.                                         *)
(***************************************************************************)
\* Variant of Validate: len(c.Servers) == 0 tested in place of c.Servers == nil
ValidateByLength(c) ==
    IF Len(c.Servers.elems) = 0
    THEN [cfg |-> [c EXCEPT !.Servers =
                      TrimLoop(MakeServers(<<MenderServer(c.ServerURL)>>))],
          err |-> "nil"]
    ELSE IF c.ServerURL # EmptyString
    THEN [cfg |-> c, err |-> "conflict"]
    ELSE [cfg |-> [c EXCEPT !.Servers = TrimLoop(c.Servers)], err |-> "nil"]

\* Variant of Validate: line 101 left out, the synthesized entry stays empty
ValidateLostURL(c) ==
    IF c.Servers.nil
    THEN [cfg |-> [c EXCEPT !.Servers =
                      TrimLoop(MakeServers(<<MenderServer(EmptyString)>>))],
          err |-> "nil"]
    ELSE IF c.ServerURL # EmptyString
    THEN [cfg |-> c, err |-> "conflict"]
    ELSE [cfg |-> [c EXCEPT !.Servers = TrimLoop(c.Servers)], err |-> "nil"]

\* lines 96-109, then the loop; the conflict returns before the loop
ValidateResult(c) ==
    IF c.Servers.nil
    THEN [cfg |-> [c EXCEPT !.Servers =
                      TrimLoop(MakeServers(<<MenderServer(c.ServerURL)>>))],
          err |-> "nil"]
    ELSE IF c.ServerURL # EmptyString
    THEN [cfg |-> c, err |-> "conflict"]
    ELSE [cfg |-> [c EXCEPT !.Servers = TrimLoop(c.Servers)], err |-> "nil"]

(***************************************************************************)
(* Configuration files.  A file is missing, unreadable, malformed (not     *)
(* JSON) or a JSON object; a key of the object is absent or holds a value. *)
(***************************************************************************)
mainConfigFile == "/etc/mender/mender-shell.conf"

fallbackConfigFile == "/var/lib/mender/mender-shell.conf"

Absent == [kind |-> "absent", v |-> <<>>]

JNull == [kind |-> "null", v |-> <<>>]

JNumber == [kind |-> "number", v |-> <<>>]

JString(s) == [kind |-> "string", v |-> s]

JArray(a) == [kind |-> "array", v |-> a]

JObject(o) == [kind |-> "object", v |-> o]

\* what a file may write for "ServerURL": nothing, null, a string, a number
FileServerURLs == {Absent, JNull, JNumber, JString(<<>>), JString(<<"a">>)}

\* an element of a "Servers" array: {} or {"ServerURL": "a/"}
FileServerEntries == {[ServerURL |-> Absent], [ServerURL |-> JString(<<"a", "/">>)]}

FileServers ==
    {Absent, JNull} \cup
    {JArray(a) : a \in UNION {[1..k -> FileServerEntries] : k \in 0..MaxFileServers}}

FileHttpsClients ==
    {Absent} \cup
    {JObject([Certificate |-> c, Key |-> k]) :
        c \in {Absent, JString(<<"c">>)}, k \in {Absent, JString(<<"k">>)}}

EmptyObject == [ServerURL |-> Absent, Servers |-> Absent, HttpsClient |-> Absent]

JSONObjects == [ServerURL : FileServerURLs, Servers : FileServers,
                HttpsClient : FileHttpsClients]

Files ==
    {[kind |-> k, obj |-> EmptyObject] : k \in {"missing", "unreadable", "malformed"}}
    \cup {[kind |-> "json", obj |-> o] : o \in JSONObjects}

(***************************************************************************)
(* json.Unmarshal into a value that already holds the earlier file's       *)
(* content: a key that is absent leaves the field alone; null leaves a     *)
(* string or a struct alone and makes a slice nil; a nested object is      *)
(* decoded into the struct the field already holds; an array is decoded    *)
(* element by element into the elements the slice already holds, and the   *)
(* slice ends non-nil with the array's length; a value of the wrong type   *)
(* is skipped, the error is kept and decoding goes on.                     *)
(***************************************************************************)
DecodeString(old, j) == IF j.kind = "string" THEN j.v ELSE old

DecodeServerEntry(old, j) ==
    [old EXCEPT !.ServerURL = DecodeString(@, j.ServerURL)]

DecodeServers(old, j) ==
    CASE j.kind = "null" -> NilServers
      [] j.kind = "array" ->
            MakeServers([i \in 1..Len(j.v) |->
                DecodeServerEntry(IF i <= Len(old.elems) THEN old.elems[i]
                                  ELSE MenderServer(EmptyString), j.v[i])])
      [] OTHER -> old

DecodeHTTPSClient(old, j) ==
    IF j.kind = "object"
    THEN [Certificate |-> DecodeString(old.Certificate, j.v.Certificate),
          Key |-> DecodeString(old.Key, j.v.Key)]
    ELSE old

Unmarshal(config, obj) ==
    [cfg |-> [ServerURL |-> DecodeString(config.ServerURL, obj.ServerURL),
              Servers |-> DecodeServers(config.Servers, obj.Servers),
              HTTPSClient |-> DecodeHTTPSClient(config.HTTPSClient, obj.HttpsClient)],
     typeError |-> obj.ServerURL.kind = "number"]

(***************************************************************************)
(* readConfigFile: ioutil.ReadFile, then json.Unmarshal                    *)
(***************************************************************************)
readConfigFile(config, file) ==
    CASE file.kind = "unreadable" -> [cfg |-> config, err |-> "read"]
      [] file.kind = "malformed" -> [cfg |-> config, err |-> "syntax"]
      [] OTHER ->
            LET u == Unmarshal(config, file.obj)
            IN  [cfg |-> u.cfg, err |-> IF u.typeError THEN "decode" ELSE "nil"]

(***************************************************************************)
(* loadConfigFile on the state of one LoadConfig call: the configuration   *)
(* in progress, filesLoadedCount, the paths read so far and the error      *)
(***************************************************************************)
\* Variant of loadConfigFile: a missing file is counted as loaded
loadConfigFileCountingAll(st, path) ==
    IF fs[path].kind = "missing"
    THEN [st EXCEPT !.err = "nil", !.count = @ + 1]
    ELSE LET r == readConfigFile(st.config, fs[path])
         IN  [config |-> r.cfg,
              count |-> IF r.err = "nil" THEN st.count + 1 ELSE st.count,
              reads |-> Append(st.reads, path),
              err |-> r.err]

loadConfigFile(st, path) ==
    IF fs[path].kind = "missing"
    THEN [st EXCEPT !.err = "nil"]
    ELSE LET r == readConfigFile(st.config, fs[path])
         IN  [config |-> r.cfg,
              count |-> IF r.err = "nil" THEN st.count + 1 ELSE st.count,
              reads |-> Append(st.reads, path),
              err |-> r.err]

(***************************************************************************)
(* LoadConfig: the fallback file first, then the main file; an error of    *)
(* either returns nil at once                                              *)
(***************************************************************************)
Returned(st) ==
    [called |-> TRUE,
     nilConfig |-> st.err # "nil",
     config |-> IF st.err # "nil" THEN NewMenderShellConfig ELSE st.config,
     err |-> st.err,
     filesLoadedCount |-> st.count,
     reads |-> st.reads]

\* Variant of LoadConfig: the errors of loadConfigFile are not checked
LoadConfigIgnoringErrors(main, fallback) ==
    LET st0 == [config |-> NewMenderShellConfig, count |-> 0, reads |-> <<>>, err |-> "nil"]
        st1 == loadConfigFile(st0, fallback)
        st2 == loadConfigFile(st1, main)
    IN  [Returned(st2) EXCEPT !.nilConfig = FALSE, !.config = st2.config]

LoadConfigResult(main, fallback) ==
    LET st0 == [config |-> NewMenderShellConfig, count |-> 0, reads |-> <<>>, err |-> "nil"]
        st1 == loadConfigFile(st0, fallback)
    IN  IF st1.err # "nil" THEN Returned(st1)
        ELSE Returned(loadConfigFile(st1, main))

NotLoaded ==
    [called |-> FALSE, nilConfig |-> TRUE, config |-> NewMenderShellConfig,
     err |-> "nil", filesLoadedCount |-> 0, reads |-> <<>>]

LoadConfig ==
    /\ ~loaded.called
    /\ loaded' = LoadConfigResult(mainConfigFile, fallbackConfigFile)
    /\ UNCHANGED fs

(***************************************************************************)
(* The configurations Validate is called on                                *)
(***************************************************************************)
ServerLists ==
    {NilServers} \cup
    {MakeServers(e) : e \in UNION {[1..k -> {MenderServer(u) : u \in Strings(MaxLen)}]
                                     : k \in 0..MaxServers}}

InputConfigs == {MenderShellConfig(u, s) : u \in Strings(MaxLen), s \in ServerLists}

\* no configuration under validation: the state of the other specifications
IdleValidate ==
    /\ cfg = NewMenderShellConfig
    /\ valErr = "nil"
    /\ prevErr = "nil"
    /\ calls = 0
    /\ pre = cfg

\* no LoadConfig call: both paths missing, nothing loaded
IdleLoad ==
    /\ fs = [p \in {mainConfigFile, fallbackConfigFile} |->
                [kind |-> "missing", obj |-> EmptyObject]]
    /\ loaded = NotLoaded

Validate ==
    /\ calls < MaxCalls
    /\ LET r == ValidateResult(cfg)
       IN  /\ cfg' = r.cfg
           /\ valErr' = r.err
    /\ prevErr' = valErr
    /\ pre' = cfg
    /\ calls' = calls + 1

(***************************************************************************)
(* runDaemon.  The caller starts the goroutine and then calls d.Run(); the *)
(* goroutine makes the channel, subscribes it to SIGTERM and loops forever *)
(* receiving a signal and calling d.StopDaemon().  The daemon itself       *)
(* (app.MenderShellDaemon) is outside the source: Run returns nil once a   *)
(* stop has been requested, or fails by itself with an error.              *)
(***************************************************************************)
ChanCap == 1

InitDaemon ==
    /\ pcMain = "start"
    /\ pcSig = "notStarted"
    /\ subscribed = FALSE
    /\ sigChan = 0
    /\ stopCalls = 0
    /\ stopRequested = FALSE
    /\ runResult = "none"
    /\ delivered = 0
    /\ queued = 0
    /\ alive = TRUE

\* line 221: go func() { ... }()
GoHandler ==
    /\ alive /\ pcMain = "start"
    /\ pcMain' = "callRun"
    /\ pcSig' = "init"
    /\ UNCHANGED <<subscribed, sigChan, stopCalls, stopRequested, runResult,
                   delivered, queued, alive>>
    /\ UNCHANGED <<validateVars, loadVars>>

\* line 233: d.Run() is entered
RunEnter ==
    /\ alive /\ pcMain = "callRun"
    /\ pcMain' = "running"
    /\ UNCHANGED <<pcSig, subscribed, sigChan, stopCalls, stopRequested, runResult,
                   delivered, queued, alive>>
    /\ UNCHANGED <<validateVars, loadVars>>

\* d.Run() returns nil after a stop request, and runDaemon returns it
RunReturnStopped ==
    /\ alive /\ pcMain = "running" /\ stopRequested
    /\ pcMain' = "returned"
    /\ runResult' = "nil"
    /\ UNCHANGED <<pcSig, subscribed, sigChan, stopCalls, stopRequested,
                   delivered, queued, alive>>
    /\ UNCHANGED <<validateVars, loadVars>>

\* d.Run() fails by itself, and runDaemon returns the error
RunFail ==
    /\ alive /\ pcMain = "running"
    /\ pcMain' = "returned"
    /\ runResult' = "error"
    /\ UNCHANGED <<pcSig, subscribed, sigChan, stopCalls, stopRequested,
                   delivered, queued, alive>>
    /\ UNCHANGED <<validateVars, loadVars>>

\* lines 222-224: make(chan os.Signal, 1); signal.Notify(c, syscall.SIGTERM)
Notify ==
    /\ alive /\ pcSig = "init"
    /\ pcSig' = "recv"
    /\ subscribed' = TRUE
    /\ sigChan' = 0
    /\ UNCHANGED <<pcMain, stopCalls, stopRequested, runResult, delivered, queued, alive>>
    /\ UNCHANGED <<validateVars, loadVars>>

\* Variant of Receive: the signal is read without being taken from c
ReceivePeek ==
    /\ alive /\ pcSig = "recv" /\ sigChan > 0 /\ stopCalls < MaxSignals
    /\ pcSig' = "handle"
    /\ UNCHANGED <<pcMain, subscribed, sigChan, stopCalls, stopRequested, runResult,
                   delivered, queued, alive>>
    /\ UNCHANGED <<validateVars, loadVars>>

\* line 227: s := <-c, blocking until a signal is buffered
Receive ==
    /\ alive /\ pcSig = "recv" /\ sigChan > 0
    /\ sigChan' = sigChan - 1
    /\ pcSig' = "handle"
    /\ UNCHANGED <<pcMain, subscribed, stopCalls, stopRequested, runResult,
                   delivered, queued, alive>>
    /\ UNCHANGED <<validateVars, loadVars>>

\* lines 228-230: s is SIGTERM (the only signal subscribed): d.StopDaemon(),
\* and the loop goes back to the receive
CallStopDaemon ==
    /\ alive /\ pcSig = "handle"
    /\ stopCalls' = stopCalls + 1
    /\ stopRequested' = TRUE
    /\ pcSig' = "recv"
    /\ UNCHANGED <<pcMain, subscribed, sigChan, runResult, delivered, queued, alive>>
    /\ UNCHANGED <<validateVars, loadVars>>

\* The environment sends SIGTERM.  With the subscription in force the Go
\* runtime does a non-blocking send on c (the signal is dropped when c is
\* full); without it SIGTERM has its default effect: the program exits.
SIGTERM ==
    /\ alive /\ delivered < MaxSignals
    /\ delivered' = delivered + 1
    /\ IF subscribed
       THEN /\ sigChan' = IF sigChan < ChanCap THEN sigChan + 1 ELSE sigChan
            /\ queued' = IF sigChan < ChanCap THEN queued + 1 ELSE queued
            /\ alive' = TRUE
       ELSE /\ alive' = FALSE
            /\ UNCHANGED <<sigChan, queued>>
    /\ UNCHANGED <<pcMain, pcSig, subscribed, stopCalls, stopRequested, runResult>>
    /\ UNCHANGED <<validateVars, loadVars>>

ValidateStep == Validate /\ UNCHANGED <<loadVars, daemonVars>>

LoadConfigStep == LoadConfig /\ UNCHANGED <<validateVars, daemonVars>>

InitSpecValidate ==
    /\ cfg \in InputConfigs
    /\ valErr = "nil" /\ prevErr = "nil" /\ calls = 0 /\ pre = cfg
    /\ IdleLoad
    /\ InitDaemon

InitSpecDaemon ==
    /\ InitDaemon
    /\ IdleValidate
    /\ IdleLoad

InitSpecLoad ==
    /\ fs \in [{mainConfigFile, fallbackConfigFile} -> Files]
    /\ loaded = NotLoaded
    /\ IdleValidate
    /\ InitDaemon

NextValidate == ValidateStep

NextLoad == LoadConfigStep

\* Validate called, up to MaxCalls times, on each configuration of InputConfigs
SpecValidate == InitSpecValidate /\ [][NextValidate]_vars

\* LoadConfig called once on each file system of two paths
SpecLoad == InitSpecLoad /\ [][NextLoad]_vars

NextDaemon ==
    \/ GoHandler
    \/ RunEnter
    \/ RunReturnStopped
    \/ RunFail
    \/ Notify
    \/ Receive
    \/ CallStopDaemon
    \/ SIGTERM

\* one run of runDaemon, with up to MaxSignals SIGTERMs sent at any moment
SpecDaemon == InitSpecDaemon /\ [][NextDaemon]_vars

\* The Go scheduler runs every runnable goroutine eventually, and Run returns
\* once a stop has been requested; nothing obliges the environment to send a
\* signal or the daemon to fail.
FairDaemon ==
    /\ SpecDaemon
    /\ WF_vars(GoHandler)
    /\ WF_vars(RunEnter)
    /\ WF_vars(RunReturnStopped)
    /\ WF_vars(Notify)
    /\ WF_vars(Receive)
    /\ WF_vars(CallStopDaemon)

(***************************************************************************)
(* Properties of Validate                                                  *)
(***************************************************************************)
URLsOf(servers) == [i \in 1..Len(servers.elems) |-> servers.elems[i].ServerURL]

\* s with one trailing "/" removed, when it has one
WithoutOneSlash(s) ==
    IF s # <<>> /\ s[Len(s)] = "/" THEN [i \in 1..(Len(s) - 1) |-> s[i]] ELSE s

\* the URLs the normalization loop of a Validate call starts from
SourceURLs(c) == IF c.Servers.nil THEN <<c.ServerURL>> ELSE URLsOf(c.Servers)

\* C1 (as amended): the last Validate call returned the conflict error if and
\* only if, when it began, Servers was present (non-nil, with zero or more
\* entries) and ServerURL was non-empty; and a call that returned the error
\* left the configuration as it found it.
C1_ConflictIffPresentAndURL ==
    calls > 0 =>
        /\ (valErr = "conflict") <=> (~pre.Servers.nil /\ pre.ServerURL # <<>>)
        /\ (valErr = "conflict") => (cfg = pre)

\* C1 witness: the error was returned for a present list of zero entries.
C1_Witness ==
    /\ calls > 0
    /\ valErr = "conflict"
    /\ ~pre.Servers.nil
    /\ Len(pre.Servers.elems) = 0
    /\ cfg = pre

\* C1 (as claimed): the last Validate call returned the error if and only if
\* the Servers list was non-empty and ServerURL was non-empty, and an
\* erroring call modified no entry of Servers.
C1_Original ==
    calls > 0 =>
        /\ (valErr = "conflict") <=> (Len(pre.Servers.elems) > 0 /\ pre.ServerURL # <<>>)
        /\ (valErr = "conflict") => (cfg.Servers = pre.Servers)

\* C3 (as amended): a Validate call that began with an absent (nil) Servers
\* list returned no error and left exactly one entry, whose URL is ServerURL
\* with one trailing slash removed (empty when ServerURL is empty).
C3_NilServersSynthesized ==
    (calls > 0 /\ pre.Servers.nil) =>
        /\ valErr = "nil"
        /\ ~cfg.Servers.nil
        /\ URLsOf(cfg.Servers) = <<WithoutOneSlash(pre.ServerURL)>>
        /\ (pre.ServerURL = <<>> => URLsOf(cfg.Servers) = << <<>> >>)

\* C3 witness: a call on a nil list with a ServerURL ending in a slash.
C3_Witness ==
    /\ calls > 0
    /\ pre.Servers.nil
    /\ pre.ServerURL = <<"a", "/">>
    /\ URLsOf(cfg.Servers) = << <<"a">> >>

\* C3 (as claimed): a Validate call that began with an empty or absent
\* Servers list (nil, or present with zero entries) returned no error and
\* left exactly one entry holding ServerURL with one trailing slash removed.
C3_Original ==
    (calls > 0 /\ Len(pre.Servers.elems) = 0) =>
        /\ valErr = "nil"
        /\ URLsOf(cfg.Servers) = <<WithoutOneSlash(pre.ServerURL)>>

\* C4 (as amended): after a Validate call that returned no error, every URL
\* of Servers is the URL the call started from with exactly one trailing
\* slash removed when it had one; so a URL still ends with a slash exactly
\* when the input URL ended with two or more slashes.
C4_OneSlashStripped ==
    (calls > 0 /\ valErr = "nil") =>
        /\ Len(cfg.Servers.elems) = Len(SourceURLs(pre))
        /\ \A i \in 1..Len(cfg.Servers.elems) :
              LET in == SourceURLs(pre)[i]
                  out == cfg.Servers.elems[i].ServerURL
              IN  /\ out = WithoutOneSlash(in)
                  /\ (out # <<>> /\ out[Len(out)] = "/")
                        <=> (Len(in) >= 2 /\ in[Len(in)] = "/" /\ in[Len(in) - 1] = "/")

\* C4 witness: a successful call on a list holding "a/" and "/" left "a" and "".
C4_Witness ==
    /\ calls > 0
    /\ valErr = "nil"
    /\ SourceURLs(pre) = << <<"a", "/">>, <<"/">> >>
    /\ URLsOf(cfg.Servers) = << <<"a">>, <<>> >>

\* C4 (as claimed): after a Validate call that returned no error, no URL of
\* Servers ends with a slash, whatever the input URL was.
C4_Original ==
    (calls > 0 /\ valErr = "nil") =>
        \A i \in 1..Len(cfg.Servers.elems) :
            LET out == cfg.Servers.elems[i].ServerURL
            IN  ~(out # <<>> /\ out[Len(out)] = "/")

\* C9 (as claimed): when a Validate call returned no error, the next call on
\* the unchanged configuration returns no error either and leaves every URL
\* of Servers as the first call left it.
C9_Idempotent ==
    (calls >= 2 /\ prevErr = "nil") =>
        /\ valErr = "nil"
        /\ URLsOf(cfg.Servers) = URLsOf(pre.Servers)

(***************************************************************************)
(* Properties of LoadConfig                                                *)
(***************************************************************************)
\* the configuration a JSON object describes by itself: each key it writes,
\* every other field at its zero value
StringOf(j) == IF j.kind = "string" THEN j.v ELSE <<>>

ContentOf(o) ==
    [ServerURL |-> StringOf(o.ServerURL),
     Servers |-> IF o.Servers.kind = "array"
                 THEN [nil |-> FALSE,
                       elems |-> [i \in 1..Len(o.Servers.v) |->
                                    [ServerURL |-> StringOf(o.Servers.v[i].ServerURL)]]]
                 ELSE [nil |-> TRUE, elems |-> <<>>],
     HTTPSClient |-> IF o.HttpsClient.kind = "object"
                     THEN [Certificate |-> StringOf(o.HttpsClient.v.Certificate),
                           Key |-> StringOf(o.HttpsClient.v.Key)]
                     ELSE [Certificate |-> <<>>, Key |-> <<>>]]

DefaultConfig ==
    [ServerURL |-> <<>>, Servers |-> [nil |-> TRUE, elems |-> <<>>],
     HTTPSClient |-> [Certificate |-> <<>>, Key |-> <<>>]]

Paths == {mainConfigFile, fallbackConfigFile}

\* the file at p exists and is a JSON object whose values have the fields' types
Parses(p) == fs[p].kind = "json" /\ fs[p].obj.ServerURL.kind # "number"

Missing(p) == fs[p].kind = "missing"

Malformed(p) == fs[p].kind = "malformed"

ParseErrors == {"syntax", "decode"}

\* C2 (as claimed): when both files exist and parse (and write no null),
\* every field of the returned configuration holds the main file's value if
\* the main file sets its key, otherwise the fallback file's value if the
\* fallback sets it, otherwise the default.
C2_MainOverridesFallback ==
    LET m == fs[mainConfigFile].obj
        f == fs[fallbackConfigFile].obj
        NoNull(o) == \A k \in DOMAIN o : o[k].kind # "null"
        Expected(key, field) ==
            IF m[key].kind # "absent" THEN ContentOf(m)[field]
            ELSE IF f[key].kind # "absent" THEN ContentOf(f)[field]
            ELSE DefaultConfig[field]
    IN  (/\ loaded.called
         /\ Parses(mainConfigFile) /\ Parses(fallbackConfigFile)
         /\ NoNull(m) /\ NoNull(f)) =>
            /\ loaded.err = "nil"
            /\ loaded.config.ServerURL = Expected("ServerURL", "ServerURL")
            /\ loaded.config.Servers = Expected("Servers", "Servers")
            /\ loaded.config.HTTPSClient = Expected("HttpsClient", "HTTPSClient")

\* C7: with every path missing or readable, if a file holds malformed JSON
\* LoadConfig returns a parse error and a nil configuration; when the
\* fallback is the malformed one the main file is never read and nothing was
\* counted; when the main file is the malformed one (the fallback missing or
\* loaded) only the fallback was counted.
C7_MalformedAborts ==
    (/\ loaded.called
     /\ \A p \in Paths : fs[p].kind # "unreadable"
     /\ \E p \in Paths : Malformed(p)) =>
        /\ loaded.nilConfig
        /\ loaded.err \in ParseErrors
        /\ Malformed(fallbackConfigFile) =>
              /\ loaded.err = "syntax"
              /\ loaded.reads = <<fallbackConfigFile>>
              /\ loaded.filesLoadedCount = 0
        /\ (Malformed(mainConfigFile) /\ Missing(fallbackConfigFile)) =>
              /\ loaded.err = "syntax"
              /\ loaded.reads = <<mainConfigFile>>
              /\ loaded.filesLoadedCount = 0
        /\ (Malformed(mainConfigFile) /\ Parses(fallbackConfigFile)) =>
              /\ loaded.err = "syntax"
              /\ loaded.reads = <<fallbackConfigFile, mainConfigFile>>
              /\ loaded.filesLoadedCount = 1

\* C7 witness: the fallback is malformed, the main file is a JSON object that
\* parses, and LoadConfig returned nil after reading the fallback only.
C7_Witness ==
    /\ loaded.called
    /\ Malformed(fallbackConfigFile)
    /\ Parses(mainConfigFile)
    /\ loaded.nilConfig
    /\ loaded.err = "syntax"
    /\ loaded.reads = <<fallbackConfigFile>>

InHand == IF pcSig = "handle" THEN 1 ELSE 0

\* C5 (as amended): StopDaemon is called once for each SIGTERM the
\* subscription receives: every signal the channel accepted is buffered, in
\* hand or answered by exactly one call; so there is no call without a
\* SIGTERM and never more calls than SIGTERMs delivered.
C5_OneStopPerReceivedSignal ==
    /\ stopCalls + InHand + sigChan = queued
    /\ queued <= delivered
    /\ stopCalls <= delivered
    /\ (delivered = 0) => (stopCalls = 0)

\* C5 witness: two SIGTERMs were delivered and StopDaemon was called twice.
C5_Witness == delivered = 2 /\ stopCalls = 2 /\ alive

\* C5 (as claimed): StopDaemon is never called more than once during one run
\* of runDaemon, however many SIGTERMs are delivered.
C5_Original == stopCalls <= 1

\* C6 (as claimed): Run never executes while the SIGTERM subscription is not
\* yet installed, so a SIGTERM sent once Run has started reaches the
\* subscription and never terminates the process.
C6_SubscribedBeforeRun ==
    /\ (pcMain = "running") => subscribed
    /\ (pcMain \in {"running", "returned"}) => alive

\* C10 (as claimed): whenever runDaemon has returned, the signal-handling
\* goroutine eventually terminates and its deferred signal.Stop has released
\* the subscription.
C10_SubscriptionReleased ==
    [](pcMain = "returned" => <>(pcSig = "exited" /\ ~subscribed))

====
